---- MODULE Spec2Model ----
(***************************************************************************)
(* Model of docs/conf.py, the Sphinx configuration module of SAPPOROBDD    *)
(* 2.0: the module-level assignments executed when Sphinx loads the file,  *)
(* setup(app), and the 'builder-inited' hook run_doxygen(app).             *)
(*                                                                         *)
(* A path is the sequence of its components, so os.path.join is            *)
(* concatenation and "lies inside" is "has as a prefix".  The file system  *)
(* is reduced to the one path the hook touches, <docs_dir>/_doxygen, and   *)
(* to whether docs_dir accepts a new entry.  Everything the program does   *)
(* to the outside world in one build (os.environ.get, os.makedirs,         *)
(* subprocess.run, print) is appended to the sequence effects, in order.   *)
(***************************************************************************)
EXTENDS Integers, Sequences, FiniteSets, TLC

VARIABLES
    environ,     \* value of READTHEDOCS in os.environ ("None": unset)
    dir,         \* what is at <docs_dir>/_doxygen: "absent", "dir", "file"
    writable,    \* docs_dir accepts the creation of an entry
    phase,       \* where the Sphinx build is
    event,       \* index in EventOrder of the event being (or next) emitted
    pending,     \* callbacks of the current event still to be called
    listeners,   \* app's registry: event name -> sequence of callbacks
    config,      \* the module namespace of conf.py
    pc,          \* position inside run_doxygen
    result,      \* how the last run of run_doxygen ended
    outcome,     \* what the doxygen invocation of this build met
    effects,     \* the build's calls to the outside world, in order
    runStart,    \* Len(effects) when the current run of the hook began
    runs,        \* runs of run_doxygen begun in this build
    start,       \* the file system when the build began
    builds,      \* builds finished
    history      \* one summary per finished build

vars == <<environ, dir, writable, phase, event, pending, listeners, config,
          pc, result, outcome, effects, runStart, runs, start, builds, history>>

MaxBuilds == 2

(***************************************************************************)
(* The inputs.                                                             *)
(***************************************************************************)
EnvValues == {"None", "True", "true", "1"}
DirStates == {"absent", "dir", "file"}
ExitCodes == {0, 1, 2}
Outcomes ==
    {[tool |-> "present", code |-> c] : c \in ExitCodes}
        \cup {[tool |-> t, code |-> 0] : t \in {"missing", "noexec"}}
NoOutcome == [tool |-> "none", code |-> 0]

EventOrder == <<"config-inited", "builder-inited", "build-finished">>
Events == {EventOrder[i] : i \in 1..Len(EventOrder)}

(***************************************************************************)
(* Module-level values of conf.py.                                         *)
(***************************************************************************)
breathe_projects == [p \in {"SAPPOROBDD2"} |-> <<"_doxygen", "xml">>]
\* A project name that is no key of breathe_projects.
breathe_default_project_typo == "SAPPOROBDD"
breathe_default_project == "SAPPOROBDD2"

\* Truthiness of the variable instead of the comparison with 'True'.
ReadTheDocsBuildTruthy(v) == v # "None"

\* os.environ.get('READTHEDOCS', None) == 'True'
ReadTheDocsBuild(v) == v = "True"

Unloaded ==
    [read_the_docs_build |-> FALSE,
     breathe_projects |-> [p \in {} |-> <<>>],
     breathe_default_project |-> ""]

ModuleNamespace(v) ==
    [read_the_docs_build |-> ReadTheDocsBuild(v),
     breathe_projects |-> breathe_projects,
     breathe_default_project |-> breathe_default_project]

(***************************************************************************)
(* Paths and effects.                                                      *)
(***************************************************************************)
docs_dir == <<"docs">>
PathJoin(a, b) == a \o <<b>>
doxygen_dir == PathJoin(docs_dir, "_doxygen")

IsPrefix(p, q) == Len(p) <= Len(q) /\ SubSeq(q, 1, Len(p)) = p

Effect(op, path, argv, text) ==
    [op |-> op, path |-> path, argv |-> argv, text |-> text]

Select(s, op) == SelectSeq(s, LAMBDA e : e.op = op)
Stdout(s) == Select(s, "print")
Calls(s) == Select(s, "subprocess.run")
EnvReads(s) == Select(s, "environ.get")
RunEffects == SubSeq(effects, runStart + 1, Len(effects))

(***************************************************************************)
(* os.makedirs(doxygen_dir, exist_ok=True), line 66.  docs_dir exists (it  *)
(* holds conf.py), so only the leaf is made.  mkdir fails with             *)
(* FileExistsError when the path exists, whatever it is, and with          *)
(* PermissionError when docs_dir refuses the new entry; makedirs forgives  *)
(* the first only when exist_ok is set and the path is a directory.        *)
(***************************************************************************)
Mkdir(d, w) ==
    IF d # "absent" THEN [dir |-> d, exc |-> "FileExistsError"]
    ELSE IF w THEN [dir |-> "dir", exc |-> "none"]
    ELSE [dir |-> d, exc |-> "PermissionError"]

\* makedirs without exist_ok: an existing directory is an error.
MakedirsStrict(d, w, exist_ok) == Mkdir(d, w)

\* No directory creation at all.
MakedirsSkipped(d, w, exist_ok) == [dir |-> d, exc |-> "none"]

MakedirsResult(d, w, exist_ok) ==
    LET r == Mkdir(d, w)
    IN  IF r.exc = "FileExistsError" /\ exist_ok /\ d = "dir"
        THEN [dir |-> d, exc |-> "none"]
        ELSE r

(***************************************************************************)
(* subprocess.run(['doxygen', 'Doxyfile'], cwd=docs_dir, check=True),      *)
(* line 70: the exception it raises, "none" when it returns.               *)
(***************************************************************************)
\* subprocess.run without check: a non-zero exit status raises nothing.
SubprocessRunNoCheck(o, check) ==
    CASE o.tool = "missing" -> "FileNotFoundError"
      [] o.tool = "noexec" -> "PermissionError"
      [] OTHER -> "none"

SubprocessRun(o, check) ==
    CASE o.tool = "missing" -> "FileNotFoundError"
      [] o.tool = "noexec" -> "PermissionError"
      [] OTHER -> IF check /\ o.code # 0 THEN "CalledProcessError" ELSE "none"

\* The try statement without its except FileNotFoundError clause.
AfterTryNoNotFound(exc) ==
    CASE exc = "none" -> "print_ok"
      [] exc = "CalledProcessError" -> "print_failed"
      [] OTHER -> "raised"

\* The try statement without its except CalledProcessError clause.
AfterTryNoCalledProcess(exc) ==
    CASE exc = "none" -> "print_ok"
      [] exc = "FileNotFoundError" -> "print_notfound"
      [] OTHER -> "raised"

\* A failed doxygen is run again instead of reported.
AfterTryRetry(exc) ==
    CASE exc = "none" -> "print_ok"
      [] exc = "CalledProcessError" -> "run"
      [] exc = "FileNotFoundError" -> "print_notfound"
      [] OTHER -> "raised"

\* The try statement of lines 69-75: where control goes after the call.
AfterTry(exc) ==
    CASE exc = "none" -> "print_ok"
      [] exc = "CalledProcessError" -> "print_failed"
      [] exc = "FileNotFoundError" -> "print_notfound"
      [] OTHER -> "raised"

\* The three messages, lines 71, 73, 75.  str(e) of a CalledProcessError
\* names the command and its exit status.
SuccessMsg == "Doxygen XML generation completed successfully"
CalledProcessErrorStr(code) ==
    "Command '['doxygen', 'Doxyfile']' returned non-zero exit status "
        \o ToString(code) \o "."
FailedMsg(code) ==
    "Warning: Doxygen failed with error: " \o CalledProcessErrorStr(code)
NotFoundMsg == "Warning: Doxygen not found, skipping XML generation"

\* app.connect(ev, cb)
Connect(reg, ev, cb) == [reg EXCEPT ![ev] = Append(@, cb)]

Init ==
    /\ environ \in EnvValues
    /\ dir \in DirStates
    /\ writable \in BOOLEAN
    /\ phase = "idle"
    /\ event = 1
    /\ pending = <<>>
    /\ listeners = [e \in Events |-> <<>>]
    /\ config = Unloaded
    /\ pc = "idle"
    /\ result = "none"
    /\ outcome = NoOutcome
    /\ effects = <<>>
    /\ runStart = 0
    /\ runs = 0
    /\ start = [dir |-> dir, writable |-> writable]
    /\ builds = 0
    /\ history = <<>>

(***************************************************************************)
(* The surroundings: between two builds the environment variable and the   *)
(* file system may change.                                                 *)
(***************************************************************************)
Tamper(e, d, w) ==
    /\ phase = "idle"
    /\ builds < MaxBuilds
    /\ <<e, d, w>> # <<environ, dir, writable>>
    /\ environ' = e
    /\ dir' = d
    /\ writable' = w
    /\ start' = [dir |-> d, writable |-> w]
    /\ UNCHANGED <<phase, event, pending, listeners, config, pc, result,
                   outcome, effects, runStart, runs, builds, history>>

StartBuild ==
    /\ phase = "idle"
    /\ builds < MaxBuilds
    /\ phase' = "load"
    /\ UNCHANGED <<environ, dir, writable, event, pending, listeners, config,
                   pc, result, outcome, effects, runStart, runs, start,
                   builds, history>>

\* Sphinx executes conf.py: lines 10-56, of which line 46 reads os.environ.
LoadConf ==
    /\ phase = "load"
    /\ effects' = Append(effects,
                         Effect("environ.get", <<>>, <<"READTHEDOCS">>, ""))
    /\ config' = ModuleNamespace(environ)
    /\ phase' = "setup"
    /\ UNCHANGED <<environ, dir, writable, event, pending, listeners, pc,
                   result, outcome, runStart, runs, start, builds, history>>

\* setup connecting the hook to a second event as well.
SetupTwoEvents ==
    /\ phase = "setup"
    /\ listeners' = Connect(Connect(listeners, "config-inited", "run_doxygen"),
                            "builder-inited", "run_doxygen")
    /\ phase' = "emit"
    /\ UNCHANGED <<environ, dir, writable, event, pending, config, pc, result,
                   outcome, effects, runStart, runs, start, builds, history>>

\* setup connecting the hook only on Read the Docs.
SetupOnlyOnReadTheDocs ==
    /\ phase = "setup"
    /\ listeners' = IF config.read_the_docs_build
                    THEN Connect(listeners, "builder-inited", "run_doxygen")
                    ELSE listeners
    /\ phase' = "emit"
    /\ UNCHANGED <<environ, dir, writable, event, pending, config, pc, result,
                   outcome, effects, runStart, runs, start, builds, history>>

\* setup(app), lines 77-78.
Setup ==
    /\ phase = "setup"
    /\ listeners' = Connect(listeners, "builder-inited", "run_doxygen")
    /\ phase' = "emit"
    /\ UNCHANGED <<environ, dir, writable, event, pending, config, pc, result,
                   outcome, effects, runStart, runs, start, builds, history>>

\* Sphinx emits the next event: its callbacks are called one after another.
Emit ==
    /\ phase = "emit"
    /\ pending' = listeners[EventOrder[event]]
    /\ phase' = "dispatch"
    /\ UNCHANGED <<environ, dir, writable, event, listeners, config, pc,
                   result, outcome, effects, runStart, runs, start, builds,
                   history>>

\* The call run_doxygen(app), line 60.
CallHook ==
    /\ phase = "dispatch"
    /\ pc = "idle"
    /\ pending # <<>>
    /\ Head(pending) = "run_doxygen"
    /\ pending' = Tail(pending)
    /\ pc' = "makedirs"
    /\ result' = "none"
    /\ runStart' = Len(effects)
    /\ runs' = runs + 1
    /\ UNCHANGED <<environ, dir, writable, phase, event, listeners, config,
                   outcome, effects, start, builds, history>>

\* Lines 62-66.
Makedirs ==
    /\ pc = "makedirs"
    /\ LET r == MakedirsResult(dir, writable, TRUE)
       IN  /\ dir' = r.dir
           /\ effects' = Append(effects,
                                Effect("makedirs", doxygen_dir, <<>>, ""))
           /\ pc' = IF r.exc = "none" THEN "run" ELSE "raised"
           /\ result' = IF r.exc = "none" THEN result ELSE r.exc
    /\ UNCHANGED <<environ, writable, phase, event, pending, listeners,
                   config, outcome, runStart, runs, start, builds, history>>

\* Lines 69-70 and the except clauses' matching, lines 72 and 74.
RunSubprocess(o) ==
    /\ pc = "run"
    /\ LET exc == SubprocessRun(o, TRUE)
       IN  /\ pc' = AfterTry(exc)
           /\ result' = IF AfterTry(exc) = "raised" THEN exc ELSE result
    /\ outcome' = o
    /\ effects' = Append(effects,
                         Effect("subprocess.run", docs_dir,
                                <<"doxygen", "Doxyfile">>, ""))
    /\ UNCHANGED <<environ, dir, writable, phase, event, pending, listeners,
                   config, runStart, runs, start, builds, history>>

\* print(...) and the return that follows it.
PrintLine(msg) ==
    /\ effects' = Append(effects, Effect("print", <<>>, <<>>, msg))
    /\ pc' = "returned"
    /\ result' = "None"
    /\ UNCHANGED <<environ, dir, writable, phase, event, pending, listeners,
                   config, outcome, runStart, runs, start, builds, history>>

\* Line 71.
PrintSuccess ==
    /\ pc = "print_ok"
    /\ PrintLine(SuccessMsg)

\* Lines 72-73.
PrintFailed ==
    /\ pc = "print_failed"
    /\ PrintLine(FailedMsg(outcome.code))

\* Lines 74-75.
PrintNotFound ==
    /\ pc = "print_notfound"
    /\ PrintLine(NotFoundMsg)

\* The hook has returned: Sphinx goes on with the event's callbacks.
HookReturned ==
    /\ pc = "returned"
    /\ pc' = "idle"
    /\ UNCHANGED <<environ, dir, writable, phase, event, pending, listeners,
                   config, result, outcome, effects, runStart, runs, start,
                   builds, history>>

\* The hook has raised: the exception leaves app.emit and the build stops.
HookRaised ==
    /\ pc = "raised"
    /\ pc' = "idle"
    /\ pending' = <<>>
    /\ phase' = "aborted"
    /\ UNCHANGED <<environ, dir, writable, event, listeners, config, result,
                   outcome, effects, runStart, runs, start, builds, history>>

\* All callbacks of the event have returned.
EventDone ==
    /\ phase = "dispatch"
    /\ pc = "idle"
    /\ pending = <<>>
    /\ IF event < Len(EventOrder)
       THEN event' = event + 1 /\ phase' = "emit"
       ELSE event' = event /\ phase' = "done"
    /\ UNCHANGED <<environ, dir, writable, pending, listeners, config, pc,
                   result, outcome, effects, runStart, runs, start, builds,
                   history>>

Summary ==
    [read_the_docs_build |-> config.read_the_docs_build,
     start |-> start,
     outcome |-> outcome,
     listeners |-> listeners,
     effects |-> effects,
     dir |-> dir,
     result |-> result,
     ended |-> phase]

\* The process of the build exits; nothing of it remains but the file system.
EndBuild ==
    /\ phase \in {"done", "aborted"}
    /\ history' = Append(history, Summary)
    /\ builds' = builds + 1
    /\ phase' = "idle"
    /\ event' = 1
    /\ pending' = <<>>
    /\ listeners' = [e \in Events |-> <<>>]
    /\ config' = Unloaded
    /\ result' = "none"
    /\ outcome' = NoOutcome
    /\ effects' = <<>>
    /\ runStart' = 0
    /\ runs' = 0
    /\ start' = [dir |-> dir, writable |-> writable]
    /\ UNCHANGED <<environ, dir, writable, pc>>

Next ==
    \/ \E e \in EnvValues, d \in DirStates, w \in BOOLEAN : Tamper(e, d, w)
    \/ StartBuild
    \/ LoadConf
    \/ Setup
    \/ Emit
    \/ CallHook
    \/ Makedirs
    \/ \E o \in Outcomes : RunSubprocess(o)
    \/ PrintSuccess
    \/ PrintFailed
    \/ PrintNotFound
    \/ HookReturned
    \/ HookRaised
    \/ EventDone
    \/ EndBuild

Spec == Init /\ [][Next]_vars

(***************************************************************************)
(* Vocabulary of the properties.                                           *)
(***************************************************************************)
AfterLoad == phase \notin {"idle", "load"}
AfterSetup == phase \notin {"idle", "load", "setup"}
RunEnded == pc \in {"returned", "raised"}
RunOut == Stdout(RunEffects)
RunCalls == Calls(RunEffects)
Printed(m) == \E i \in 1..Len(RunOut) : RunOut[i].text = m
PrintedFailed == \E c \in ExitCodes : Printed(FailedMsg(c))
DoxygenSucceeded == outcome.tool = "present" /\ outcome.code = 0
DoxygenFailed == outcome.tool = "present" /\ outcome.code # 0
DoxygenMissing == outcome.tool = "missing"
\* The directory step fails when the path is taken by something that is no
\* directory, or is absent where docs_dir refuses a new entry.
DirStepFails(st) == st.dir = "file" \/ (st.dir = "absent" /\ ~st.writable)
Finished(i) == history[i]

(***************************************************************************)
(* C1.  When the doxygen invocation ends in one of its three outcomes      *)
(* (exit status zero, non-zero exit status, executable missing), the hook  *)
(* does not raise: control goes to a print and then back to Sphinx with    *)
(* the result None, and the build is not aborted.                          *)
(***************************************************************************)
C1_NeverRaisesOnDoxygenOutcome ==
    (DoxygenSucceeded \/ DoxygenFailed \/ DoxygenMissing) =>
        /\ pc \in {"print_ok", "print_failed", "print_notfound",
                   "returned", "idle"}
        /\ phase \in {"dispatch", "emit", "done"}
        /\ pc \in {"returned", "idle"} => result = "None"

C1_Witness ==
    /\ phase = "done"
    /\ DoxygenFailed
    /\ result = "None"
    /\ \E i \in DOMAIN history :
          /\ Finished(i).outcome.tool = "missing"
          /\ Finished(i).ended = "done"

(***************************************************************************)
(* C2.  Whenever run_doxygen returns, <docs_dir>/_doxygen is a directory,  *)
(* whatever doxygen did; and a run that finds the directory present keeps  *)
(* it and does not fail in the directory step.                             *)
(***************************************************************************)
C2_DirectoryExistsOnReturn ==
    /\ pc = "returned" => dir = "dir"
    /\ (runs > 0 /\ start.dir = "dir") =>
          /\ dir = "dir"
          /\ pc = "raised" => outcome # NoOutcome
          /\ phase = "aborted" => outcome # NoOutcome

C2_Witness ==
    /\ pc = "returned"
    /\ start.dir = "dir"
    /\ dir = "dir"
    /\ builds = 1
    /\ Finished(1).start.dir = "absent"
    /\ Finished(1).dir = "dir"

(***************************************************************************)
(* C3, as claimed.  Every run of run_doxygen prints exactly one message:   *)
(* the success message iff doxygen exited with status zero, a 'Doxygen     *)
(* failed' warning iff it exited non-zero, the 'not found' warning iff the *)
(* executable is missing.                                                  *)
(***************************************************************************)
MessageMatchesOutcome ==
    /\ Printed(SuccessMsg) <=> DoxygenSucceeded
    /\ PrintedFailed <=> DoxygenFailed
    /\ Printed(NotFoundMsg) <=> DoxygenMissing
    /\ DoxygenFailed => Printed(FailedMsg(outcome.code))

C3_Original ==
    RunEnded => (Len(RunOut) = 1 /\ MessageMatchesOutcome)

(***************************************************************************)
(* C3, amended.  Every run that returns has printed exactly one message,   *)
(* chosen by the doxygen outcome as claimed; a run that raises has printed *)
(* none; no run prints more than one.                                      *)
(***************************************************************************)
C3_OneMessagePerReturningRun ==
    /\ Len(RunOut) <= 1
    /\ pc = "returned" => Len(RunOut) = 1
    /\ pc = "raised" => Len(RunOut) = 0
    /\ RunEnded => MessageMatchesOutcome

C3_Witness ==
    /\ pc = "returned"
    /\ DoxygenFailed
    /\ outcome.code = 2
    /\ Printed(FailedMsg(2))
    /\ builds = 1
    /\ Finished(1).ended = "aborted"
    /\ Stdout(Finished(1).effects) = <<>>

(***************************************************************************)
(* C4.  setup registers run_doxygen on 'builder-inited' and on nothing     *)
(* else; in a build the hook runs at most once and doxygen is invoked at   *)
(* most once, never before setup; while the hook runs the build stands at  *)
(* 'builder-inited', and it is past that event only after the hook         *)
(* returned.                                                               *)
(***************************************************************************)
C4_HookOncePerBuild ==
    /\ AfterSetup =>
          listeners = [e \in Events |->
                          IF e = "builder-inited" THEN <<"run_doxygen">>
                          ELSE <<>>]
    /\ runs <= 1
    /\ Len(Calls(effects)) <= 1
    /\ (runs > 0 \/ Calls(effects) # <<>>) => AfterSetup
    /\ pc # "idle" =>
          phase = "dispatch" /\ EventOrder[event] = "builder-inited"
    /\ (AfterSetup /\ phase # "aborted" /\ event > 2) =>
          runs = 1 /\ pc = "idle" /\ result = "None"

C4_Witness ==
    /\ phase = "done"
    /\ runs = 1
    /\ Len(Calls(effects)) = 1
    /\ result = "None"

(***************************************************************************)
(* C5, as claimed.  In every run the directory step comes strictly before  *)
(* the doxygen invocation and doxygen is invoked exactly once, with the    *)
(* argument 'Doxyfile' and docs_dir as working directory.                  *)
(***************************************************************************)
InvocationWellFormed ==
    \A i \in 1..Len(RunEffects) :
        RunEffects[i].op = "subprocess.run" =>
            /\ RunEffects[i].argv = <<"doxygen", "Doxyfile">>
            /\ RunEffects[i].path = docs_dir
            /\ i = 2
            /\ RunEffects[1] = Effect("makedirs", doxygen_dir, <<>>, "")
            /\ dir = "dir"

C5_Original ==
    /\ InvocationWellFormed
    /\ RunEnded => Len(RunCalls) = 1

(***************************************************************************)
(* C5, amended.  In every run the directory step comes strictly before     *)
(* the doxygen invocation, which has the argument 'Doxyfile' and docs_dir  *)
(* as working directory; doxygen is invoked at most once per run, without  *)
(* retry after a failure: exactly once when the directory step succeeds,   *)
(* not at all when it raises.                                              *)
(***************************************************************************)
C5_DirectoryThenOneInvocation ==
    /\ InvocationWellFormed
    /\ Len(RunCalls) <= 1
    /\ pc = "returned" => Len(RunCalls) = 1
    /\ RunEnded => (Len(RunCalls) = 1 <=> ~DirStepFails(start))
    /\ (RunEnded /\ Len(RunCalls) = 0) =>
          (pc = "raised" /\ outcome = NoOutcome)

C5_Witness ==
    /\ pc = "returned"
    /\ DoxygenFailed
    /\ start.dir = "absent"
    /\ Len(RunEffects) = 3
    /\ RunEffects[1].op = "makedirs"
    /\ RunEffects[2].op = "subprocess.run"
    /\ builds = 1
    /\ Finished(1).start.dir = "file"
    /\ Calls(Finished(1).effects) = <<>>

(***************************************************************************)
(* C6, as claimed.  No run of run_doxygen raises to its caller: every      *)
(* failure inside the hook, a failure of the directory step included, ends *)
(* in a printed warning and a normal return.                               *)
(***************************************************************************)
C6_Original ==
    /\ pc # "raised"
    /\ phase # "aborted"
    /\ (RunEnded /\ ~DoxygenSucceeded) =>
          (Printed(NotFoundMsg) \/ PrintedFailed)

(***************************************************************************)
(* C6, amended.  The two failures of the doxygen invocation that the hook  *)
(* catches, a non-zero exit status and a missing executable, end in a      *)
(* printed warning and a normal return.  A failure of the directory step   *)
(* (os.makedirs raising FileExistsError or PermissionError) is not caught, *)
(* and neither is another OSError of the invocation: the run raises it to  *)
(* the caller, prints nothing, and the build is aborted.  A run raises in  *)
(* these cases and in no other.                                            *)
(***************************************************************************)
C6_OnlyDoxygenFailuresDowngraded ==
    /\ RunEnded =>
          (pc = "raised" <=> (DirStepFails(start) \/ outcome.tool = "noexec"))
    /\ (RunEnded /\ (DoxygenFailed \/ DoxygenMissing)) =>
          /\ pc = "returned"
          /\ result = "None"
          /\ Printed(NotFoundMsg) \/ PrintedFailed
    /\ pc = "raised" =>
          /\ result \in {"FileExistsError", "PermissionError"}
          /\ RunOut = <<>>
          /\ DirStepFails(start) => (outcome = NoOutcome /\ RunCalls = <<>>)
    /\ phase = "aborted" => result \in {"FileExistsError", "PermissionError"}

C6_Witness ==
    /\ phase = "aborted"
    /\ start.dir = "file"
    /\ result = "FileExistsError"
    /\ Stdout(effects) = <<>>
    /\ builds = 1
    /\ Finished(1).outcome.tool = "missing"
    /\ Finished(1).ended = "done"

(***************************************************************************)
(* C7.  Loading the module reads READTHEDOCS once and never again, and     *)
(* read_the_docs_build is True exactly when the variable holds 'True':     *)
(* False when it is unset, 'true' or '1'.                                  *)
(***************************************************************************)
C7_ReadTheDocsFlag ==
    /\ ~AfterLoad => EnvReads(effects) = <<>>
    /\ AfterLoad =>
          /\ Len(EnvReads(effects)) = 1
          /\ effects[1] = Effect("environ.get", <<>>, <<"READTHEDOCS">>, "")
          /\ environ = "True" => config.read_the_docs_build = TRUE
          /\ environ \in {"None", "true", "1"} =>
                config.read_the_docs_build = FALSE

C7_Witness ==
    /\ phase = "done"
    /\ environ = "true"
    /\ config.read_the_docs_build = FALSE
    /\ builds = 1
    /\ Finished(1).read_the_docs_build = TRUE

(***************************************************************************)
(* C8.  Once the module is loaded, breathe_default_project is a key of     *)
(* breathe_projects, the path under that key lies inside the directory     *)
(* the hook creates, and neither setup nor run_doxygen changes a           *)
(* module-level value: the namespace is what the load made it.             *)
(***************************************************************************)
C8_ConfigConsistent ==
    AfterLoad =>
        /\ config.breathe_default_project = "SAPPOROBDD2"
        /\ config.breathe_default_project \in DOMAIN config.breathe_projects
        /\ LET xml == config.breathe_projects[config.breathe_default_project]
           IN  /\ xml = <<"_doxygen", "xml">>
               /\ IsPrefix(doxygen_dir, docs_dir \o xml)
               /\ Len(docs_dir \o xml) > Len(doxygen_dir)
        /\ config = [read_the_docs_build |-> environ = "True",
                     breathe_projects |->
                         [p \in {"SAPPOROBDD2"} |-> <<"_doxygen", "xml">>],
                     breathe_default_project |-> "SAPPOROBDD2"]

C8_Witness ==
    /\ pc = "returned"
    /\ start.dir = "absent"
    /\ dir = "dir"
    /\ config.breathe_projects["SAPPOROBDD2"] = <<"_doxygen", "xml">>

C10_FailureLooksLikeSuccess ==
    /\ (pc \in {"returned", "idle"} /\ (DoxygenFailed \/ DoxygenMissing)) =>
          /\ dir = "dir"
          /\ result = "None"
          /\ phase \in {"dispatch", "emit", "done"}
          /\ \A i \in 1..Len(effects) : effects[i].text # SuccessMsg
    /\ pc = "returned" => result = "None"
    /\ \A i, j \in DOMAIN history :
          (Finished(i).ended = "done" /\ Finished(j).ended = "done") =>
              Finished(i).result = Finished(j).result

C10_Witness ==
    /\ phase = "done"
    /\ DoxygenMissing
    /\ result = "None"
    /\ dir = "dir"
    /\ builds = 1
    /\ Finished(1).outcome = [tool |-> "present", code |-> 0]
    /\ Finished(1).result = "None"
====
